---- MODULE Spec2Model ----
(***************************************************************************)
(* League-OBS-Recorder: the phase state machine of logic.py                *)
(* (LCUGameLogic) driving the recording controller (OBSClient), and the    *)
(* event-stream connection of api.py (LCUWebSocket) as run by main.py.     *)
(*                                                                         *)
(* A coroutine is cut into steps at its await points; everything between   *)
(* two awaits is one atomic action.                                        *)
(***************************************************************************)
EXTENDS Naturals, Sequences, FiniteSets, TLC

VARIABLES
    \* ---- cache.py: LCUEventCache ----
    gameflow_session,   \* <<>> for Python None, <<p>> for a cached payload p
    previous_phase,     \* Nil for Python None, else a phase string
    \* ---- logic.py: LCUGameLogic ----
    in_game,
    is_recording,
    queue_status,
    game_dodge,         \* <<classification, phase, ids>>; Nil tuple before the first event
    obs,                \* TRUE iff self.obs is not None
    obs_ready,          \* asyncio.Event obs_ready is set
    is_debug,           \* log_level.upper() == 'DEBUG'
    initpc,             \* position of the _init_obs_async task
    hpc,                \* position of the _handle_gameflow coroutine
    \* ---- obs_client.py: OBSClient and the device behind it ----
    obsConnected,       \* OBSClient.connected
    \* ---- observation of the calls made ----
    inp,                \* <<p>>: payload of the latest _handle_gameflow call
    ret,                \* where the latest _handle_gameflow call returned
    action_result,      \* what the start or stop action of that call returned
    cmds,               \* controller commands issued during the latest call
    lastCmd,            \* the latest start or stop command issued, "none" before
    faithful,           \* every status query so far confirmed the command before it
    scen,               \* progress of the Lobby, ReadyCheck, ChampSelect, None scenario
    \* ---- api.py: LCUWebSocket ----
    websocket,          \* "None", or "set" when self.websocket holds a transport
    event_handlers,     \* self.event_handlers: <<[path, handler], ...>> in insertion order
    running,            \* self._running
    attempt,            \* the loop variable of connect()
    tok,                \* what get_auth returned to the attempt in progress
    cpc,                \* position of the connect() call in progress
    lpc,                \* position of listen()
    leftBy,             \* the statement listen() left its loop by
    clpc,               \* position of the close() call that passed its guard
    closeTarget,        \* the transport that close() call is closing
    \* ---- main.py: main ----
    mpc,                \* position of main()
    mainErr,            \* the exception main() ended with
    \* ---- the event source and the transport to it ----
    lcuUp,              \* the game client is running
    transport,          \* state of the transport opened last
    openedBy,           \* the caller of the connect() that opened it
    subscribed,         \* the topics subscribed on it
    \* ---- api.py: _handle_message ----
    frame,              \* the frame received last, <<>> before the first
    invoked,            \* the handler invocations made for it, in order
    fi,                 \* index in event_handlers where the dispatch loop resumes
    outcome,            \* how _handle_message ended for it
    \* ---- logic.py: cleanup ----
    cleanup_errors      \* the calls of cleanup() whose exception was swallowed

lvars == <<gameflow_session, previous_phase, in_game, is_recording, queue_status,
           game_dodge, obs, obs_ready, is_debug, initpc, hpc, obsConnected,
           inp, ret, action_result, cmds, lastCmd, faithful, scen>>

cvars == <<websocket, event_handlers, running, attempt, tok, cpc, lpc, leftBy,
           clpc, closeTarget, mpc, mainErr, lcuUp, transport, openedBy, subscribed>>

mvars == <<frame, invoked, fi, outcome>>

tvars == <<cleanup_errors>>

vars == <<lvars, cvars, mvars, tvars>>

----------------------------------------------------------------------------
(* Values *)

Nil == "<None>"          \* Python None where a string is expected
Absent == "<absent>"     \* a key missing from a JSON document

Phases == {"None", "Lobby", "Matchmaking", "ReadyCheck", "ChampSelect",
           "InProgress", "EndOfGame", "GameComplete", "TerminatedInError"}

ignored_queue_types == {"TUTORIAL_MODULE_1", "TUTORIAL_MODULE_2",
                        "TUTORIAL_MODULE_3", "PRACTICE_TOOL"}

\* The queue types of the payloads: a ranked queue, the practice tool (which
\* the code also names on its own) and one tutorial queue.
QueueTypes == {"RANKED_SOLO_5x5", "PRACTICE_TOOL", "TUTORIAL_MODULE_1"}

\* gameDodge sub-documents: the empty document, a party dodge in champion
\* select, and a dodge document in another state.
NoDodge == [phase |-> Absent, state |-> Absent, dodgeIds |-> <<>>]
DodgeDocs == {NoDodge,
              [phase |-> "ChampSelect", state |-> "PartyDodged", dodgeIds |-> <<7>>],
              [phase |-> "ChampSelect", state |-> "Invalid", dodgeIds |-> <<7>>]}

GameIds == {"123"}

\* The session payloads fed to the handler: data.phase, data.gameData.queue.type,
\* data.gameDodge, data.gameData.gameId.
Payloads == [phase : Phases,
             queue : QueueTypes \cup {Absent},
             dodge : DodgeDocs,
             gameId : GameIds]

----------------------------------------------------------------------------
(* logic.py: pure helpers *)

DocGet(v, default) == IF v = Absent THEN default ELSE v

current_phase(p) == DocGet(p.phase, "")

get_queue_type(p) == DocGet(p.queue, "")

\* A dodge check that never finds a dodge.
check_if_dodge_never(p) == <<"False", "", <<>>>>

\* A dodge check that looks at the state of the document only.
check_if_dodge_state_only(p) ==
    LET dodge == p.dodge IN
    IF dodge = NoDodge
    THEN <<"False", "", <<>>>>
    ELSE IF DocGet(dodge.state, "Invalid") = "PartyDodged"
         THEN <<"True", DocGet(dodge.phase, ""), dodge.dodgeIds>>
         ELSE <<"Unknown", DocGet(dodge.phase, ""), dodge.dodgeIds>>

\* logic.py 81-92
check_if_dodge(p) ==
    LET dodge == p.dodge IN
    IF dodge = NoDodge
    THEN <<"False", "", <<>>>>
    ELSE IF DocGet(dodge.phase, "") \in {"ReadyCheck", "ChampSelect"}
            /\ DocGet(dodge.state, "Invalid") = "PartyDodged"
         THEN <<"True", DocGet(dodge.phase, ""), dodge.dodgeIds>>
         ELSE <<"Unknown", DocGet(dodge.phase, ""), dodge.dodgeIds>>

\* A change filter that never filters.
is_data_different_always(new_data, cached_data) == TRUE

is_data_different(new_data, cached_data) ==
    IF cached_data = <<>> THEN TRUE ELSE <<new_data>> # cached_data


\* A gate that lets every queue through.
gate_never(queue_type) == FALSE

\* A gate that knows the practice tool only.
gate_practice_only(queue_type) == queue_type = "PRACTICE_TOOL" /\ ~is_debug

\* logic.py 194-198: the ignored-queue gate returns unless in debug mode.
gate_fires(queue_type) ==
    queue_type \in ignored_queue_types /\ ~is_debug

\* An update that takes every termination in error for the end of the game.
next_in_game_error_clears(cur, queue_type) ==
    IF cur \in {"ReadyCheck", "ChampSelect"} THEN TRUE
    ELSE IF cur \in {"EndOfGame", "GameComplete", "None", "Lobby",
                     "TerminatedInError"} THEN FALSE
    ELSE in_game

\* logic.py 211-218: in_game after a phase change to cur.
next_in_game(cur, queue_type) ==
    IF cur \in {"ReadyCheck", "ChampSelect"} THEN TRUE
    ELSE IF cur \in {"EndOfGame", "GameComplete", "None", "Lobby"} THEN FALSE
    ELSE IF cur = "TerminatedInError" /\ queue_type = "PRACTICE_TOOL" THEN FALSE
    ELSE in_game

\* A handler that takes every processed payload for a phase change.
phase_changed_always(cur, prev) == TRUE

\* logic.py 203: current_phase != self.cache.previous_phase
phase_changed(cur, prev) == cur # prev

\* logic.py 204: prev_phase = self.cache.previous_phase or 'None'
prev_phase_of(pp) == IF pp \in {Nil, ""} THEN "None" ELSE pp

\* Recording cases that start on every entry into ReadyCheck or ChampSelect.
recording_case_start_always(cur, prev_phase, queue_type, dodged, recording) ==
    IF cur \in {"ReadyCheck", "ChampSelect"} THEN "start"
    ELSE IF cur = "None" /\ prev_phase \in {"ReadyCheck", "ChampSelect"} /\ recording
         THEN "stop"
    ELSE IF cur \in {"EndOfGame", "GameComplete"} /\ recording THEN "stop"
    ELSE IF cur = "TerminatedInError" /\ recording
         THEN (IF queue_type = "PRACTICE_TOOL" THEN "none" ELSE "stop")
    ELSE IF cur \in {"Lobby", "Matchmaking"} /\ dodged = "True" /\ recording
         THEN "stop"
    ELSE "none"

\* Recording cases that stop on a termination in error of any queue.
recording_case_error_stops(cur, prev_phase, queue_type, dodged, recording) ==
    IF cur \in {"ReadyCheck", "ChampSelect"} /\ ~recording THEN "start"
    ELSE IF cur = "None" /\ prev_phase \in {"ReadyCheck", "ChampSelect"} /\ recording
         THEN "stop"
    ELSE IF cur \in {"EndOfGame", "GameComplete", "TerminatedInError"} /\ recording
         THEN "stop"
    ELSE IF cur \in {"Lobby", "Matchmaking"} /\ dodged = "True" /\ recording
         THEN "stop"
    ELSE "none"

\* Recording cases that stop on every return to Lobby or Matchmaking.
recording_case_lobby_stops(cur, prev_phase, queue_type, dodged, recording) ==
    IF cur \in {"ReadyCheck", "ChampSelect"} /\ ~recording THEN "start"
    ELSE IF cur = "None" /\ prev_phase \in {"ReadyCheck", "ChampSelect"} /\ recording
         THEN "stop"
    ELSE IF cur \in {"EndOfGame", "GameComplete"} /\ recording THEN "stop"
    ELSE IF cur = "TerminatedInError" /\ recording
         THEN (IF queue_type = "PRACTICE_TOOL" THEN "none" ELSE "stop")
    ELSE IF cur \in {"Lobby", "Matchmaking"} /\ recording THEN "stop"
    ELSE "none"

\* The recording cases without the cancelled-game case of line 227-231.
recording_case_no_cancel(cur, prev_phase, queue_type, dodged, recording) ==
    IF cur \in {"ReadyCheck", "ChampSelect"} /\ ~recording THEN "start"
    ELSE IF cur \in {"EndOfGame", "GameComplete"} /\ recording THEN "stop"
    ELSE IF cur = "TerminatedInError" /\ recording
         THEN (IF queue_type = "PRACTICE_TOOL" THEN "none" ELSE "stop")
    ELSE IF cur \in {"Lobby", "Matchmaking"} /\ dodged = "True" /\ recording
         THEN "stop"
    ELSE "none"

\* logic.py 222-247: the recording action of a phase change, first match wins.
recording_case(cur, prev_phase, queue_type, dodged, recording) ==
    IF cur \in {"ReadyCheck", "ChampSelect"} /\ ~recording THEN "start"
    ELSE IF cur = "None" /\ prev_phase \in {"ReadyCheck", "ChampSelect"} /\ recording
         THEN "stop"
    ELSE IF cur \in {"EndOfGame", "GameComplete"} /\ recording THEN "stop"
    ELSE IF cur = "TerminatedInError" /\ recording
         THEN (IF queue_type = "PRACTICE_TOOL" THEN "none" ELSE "stop")
    ELSE IF cur \in {"Lobby", "Matchmaking"} /\ dodged = "True" /\ recording
         THEN "stop"
    ELSE "none"

----------------------------------------------------------------------------
(* obs_client.py: the controller calls, as seen from logic.py *)

\* OBSClient.is_recording: the device's answer (any of the two), or False when
\* the controller is not connected or the status request fails.
obs_is_recording(answer) == obsConnected /\ answer

\* A controller that knows the path of its last recording.
obs_get_last_recording_path_known == "path"

\* OBSClient.last_recording_path: set to None in __init__ (line 24) and assigned
\* again only inside modify_last_recording, which returns first when it is None.
obs_get_last_recording_path == Nil

\* logic.py 168-169: the new name of the recording.
StripLower(queue_type) ==
    CASE queue_type = "RANKED_SOLO_5x5" -> "rankedsolo5x5"
      [] queue_type = "PRACTICE_TOOL" -> "practicetool"
      [] queue_type = "TUTORIAL_MODULE_1" -> "tutorialmodule1"
      [] queue_type = "TUTORIAL_MODULE_2" -> "tutorialmodule2"
      [] queue_type = "TUTORIAL_MODULE_3" -> "tutorialmodule3"
      [] OTHER -> ""
new_name(queue_type, p) ==
    <<"league", StripLower(queue_type), "game", DocGet(p.gameId, "unknown")>>

----------------------------------------------------------------------------
(* Observation of the commands issued *)

Expected == <<"Lobby", "ReadyCheck", "ChampSelect", "None">>
ScenNone == [ev |-> <<>>, rdy |-> FALSE]

\* The scenario monitor at the start of a call with payload p that issued the
\* commands `issued` before its first await.
ScenBegin(p, issued) ==
    LET n == Len(scen.ev)
        plain == get_queue_type(p) \notin ignored_queue_types
    IN  IF n \in 1..3 /\ current_phase(p) = Expected[n + 1] /\ plain
        THEN [scen EXCEPT !.ev = Append(@, issued)]
        ELSE IF current_phase(p) = "Lobby" /\ plain /\ obs /\ ~is_recording /\ faithful
             THEN [ev |-> <<issued>>, rdy |-> obs_ready]
             ELSE ScenNone

\* The scenario monitor when the call in progress issues a command.
ScenCmd(c) ==
    IF scen.ev = <<>> THEN scen
    ELSE [scen EXCEPT !.ev[Len(scen.ev)] = Append(@, c)]

ScenKeep(s, stillFaithful, stillObs) ==
    IF stillFaithful /\ stillObs THEN s ELSE ScenNone


----------------------------------------------------------------------------
(* State after LCUGameLogic.__init__ and initialize(): with an OBS password the
   controller object exists and its initialization task has been created. *)

LogicInit ==
    /\ gameflow_session = <<>>
    /\ previous_phase = Nil
    /\ in_game = FALSE
    /\ is_recording = FALSE
    /\ queue_status = "HomeScreen"
    /\ game_dodge = <<Nil, "", <<>>>>
    /\ obs \in BOOLEAN
    /\ obs_ready = FALSE
    /\ is_debug \in BOOLEAN
    /\ initpc = IF obs THEN "connect" ELSE "none"
    /\ hpc = "idle"
    /\ obsConnected = FALSE
    /\ inp = <<>>
    /\ ret = "none"
    /\ action_result = "none"
    /\ cmds = <<>>
    /\ lastCmd = "none"
    /\ faithful = TRUE
    /\ scen = ScenNone
    /\ cleanup_errors = <<>>

----------------------------------------------------------------------------
(* logic.py: _init_obs_async, one step per await *)

\* An initialization that signals readiness only after the profile step.
ready_after_connect_profile_only(ok, ready) == ready

\* logic.py 67, 77-79: a connect that returned False leaves the try, and the
\* finally sets obs_ready; after True the profile step comes first.
ready_after_connect(ok, ready) == IF ok THEN ready ELSE TRUE

\* await self.obs.async_connect(): False skips the profile and runs the finally.
InitConnect(ok) ==
    /\ initpc = "connect"
    /\ obsConnected' = ok
    /\ initpc' = IF ok THEN "profile" ELSE "done"
    /\ obs_ready' = ready_after_connect(ok, obs_ready)
    /\ UNCHANGED <<gameflow_session, previous_phase, in_game, is_recording,
                   queue_status, game_dodge, obs, is_debug, hpc, inp,
                   ret, action_result, cmds, lastCmd, faithful, scen>>
    /\ UNCHANGED <<cvars, mvars, tvars>>

\* await self.obs.async_set_profile(...): False clears self.obs; the finally
\* sets obs_ready.
InitProfile(ok) ==
    /\ initpc = "profile"
    /\ obs' = ok
    /\ obs_ready' = TRUE
    /\ initpc' = "done"
    /\ scen' = ScenKeep(scen, TRUE, ok)
    /\ UNCHANGED <<gameflow_session, previous_phase, in_game, is_recording,
                   queue_status, game_dodge, is_debug, hpc, obsConnected,
                   inp, ret, action_result, cmds, lastCmd, faithful>>
    /\ UNCHANGED <<cvars, mvars, tvars>>

----------------------------------------------------------------------------
(* logic.py: _handle_gameflow, with _handle_recording_start and
   _handle_recording_stop inlined; one step per await *)

Payload == inp[1]      \* the argument of the call in progress

\* logic.py 249-250 and the return: persist the phase, the call is over.
Finish ==
    /\ previous_phase' = current_phase(Payload)
    /\ hpc' = "idle"
    /\ ret' = "end"

\* Actions that catch the readiness timeout only.
action_catches_timeout_only(exc) == exc = "TimeoutError"

\* logic.py 134-136 and 176-178: `except Exception` around the whole body of the
\* start action and of the stop action.
action_catches(exc) == exc \in {"TimeoutError", "AttributeError"}

\* The start or stop action ends with exception exc: caught, it is logged and the
\* action returns False, and _handle_gameflow goes on to line 250; not caught, it
\* leaves _handle_gameflow, which has no handler of its own.
ActionRaised(exc) ==
    IF action_catches(exc)
    THEN /\ action_result' = "False"
         /\ Finish
    ELSE /\ action_result' = "raised"
         /\ hpc' = "idle"
         /\ ret' = "raised"
         /\ UNCHANGED previous_phase

\* A stop action that sends the stop command also when the controller reports
\* not-recording.
already_stopped_sends ==
    [is_recording |-> FALSE, result |-> "True", cmds |-> <<"stop">>]

\* logic.py 144-147: the controller reports not-recording: is_recording is
\* synced to False, True is returned, nothing is sent.
already_stopped ==
    [is_recording |-> FALSE, result |-> "True", cmds |-> <<>>]

\* logic.py 180-247 up to the first await.
handle_gameflow(p) ==
    /\ hpc = "idle"
    /\ inp' = <<p>>
    /\ LET cur == current_phase(p)
           queue_type == get_queue_type(p)
           different == is_data_different(p, gameflow_session)
           gated == gate_fires(queue_type)
           changed == phase_changed(cur, previous_phase)
           act == IF changed /\ obs
                  THEN recording_case(cur, prev_phase_of(previous_phase), queue_type,
                                      check_if_dodge(p)[1], is_recording)
                  ELSE "none"
       IN
       IF ~different
       THEN \* line 182-183
            /\ ret' = "filter"
            /\ action_result' = "none"
            /\ cmds' = <<>>
            /\ scen' = ScenBegin(p, <<>>)
            /\ UNCHANGED <<gameflow_session, previous_phase, in_game, is_recording,
                           queue_status, game_dodge, hpc, lastCmd, faithful>>
       ELSE
            /\ gameflow_session' = <<p>>
            /\ queue_status' = cur
            /\ game_dodge' = check_if_dodge(p)
            /\ IF gated
               THEN \* line 195-198
                    /\ ret' = "gate"
                    /\ action_result' = "none"
                    /\ cmds' = <<>>
                    /\ scen' = ScenBegin(p, <<>>)
                    /\ UNCHANGED <<previous_phase, in_game, is_recording, hpc,
                                   lastCmd, faithful>>
               ELSE
                    /\ in_game' = IF changed THEN next_in_game(cur, queue_type)
                                  ELSE in_game
                    /\ CASE act = "start" ->
                              \* line 224, 113-117: suspended on obs_ready
                              /\ hpc' = "start_wait"
                              /\ ret' = "pending"
                              /\ action_result' = "none"
                              /\ cmds' = <<>>
                              /\ scen' = ScenBegin(p, <<>>)
                              /\ UNCHANGED <<previous_phase, is_recording,
                                             lastCmd, faithful>>
                         [] act = "stop" ->
                              \E answer \in BOOLEAN :
                                IF ~obs_is_recording(answer)
                                THEN \* line 144-147: already stopped
                                     /\ is_recording' = already_stopped.is_recording
                                     /\ action_result' = already_stopped.result
                                     /\ cmds' = already_stopped.cmds
                                     /\ previous_phase' = cur
                                     /\ hpc' = "idle"
                                     /\ ret' = "end"
                                     /\ faithful' = FALSE
                                     /\ scen' = ScenNone
                                     /\ UNCHANGED lastCmd
                                ELSE \* line 149-153: stop issued, then sleep(2)
                                     /\ cmds' = <<"stop">>
                                     /\ lastCmd' = "stop"
                                     /\ hpc' = "stop_flush"
                                     /\ ret' = "pending"
                                     /\ action_result' = "none"
                                     /\ scen' = ScenBegin(p, <<"stop">>)
                                     /\ UNCHANGED <<previous_phase, is_recording,
                                                    faithful>>
                         [] OTHER ->
                              /\ previous_phase' = cur
                              /\ hpc' = "idle"
                              /\ ret' = "end"
                              /\ action_result' = "none"
                              /\ cmds' = <<>>
                              /\ scen' = ScenBegin(p, <<>>)
                              /\ UNCHANGED <<is_recording, lastCmd, faithful>>
    /\ UNCHANGED <<obs, obs_ready, is_debug, initpc, obsConnected>>

HandleGameflow(p) ==
    /\ handle_gameflow(p)
    /\ UNCHANGED <<cvars, mvars, tvars>>

\* logic.py 117: wait_for(obs_ready.wait(), 5.0) raises TimeoutError, caught at 134.
start_timeout ==
    /\ hpc = "start_wait"
    /\ ~obs_ready
    /\ ActionRaised("TimeoutError")
    /\ UNCHANGED <<gameflow_session, in_game, is_recording, queue_status, game_dodge,
                   obs, obs_ready, is_debug, initpc, obsConnected, inp, cmds,
                   lastCmd, faithful, scen>>

StartTimeout ==
    /\ start_timeout
    /\ UNCHANGED <<cvars, mvars, tvars>>

\* A start action that does not wait for the readiness signal.
readiness_wait_skipped(ready) == TRUE

\* logic.py 117: `await asyncio.wait_for(self.obs_ready.wait(), timeout=5.0)`
\* returns once the event is set.
readiness_wait_over(ready) == ready

\* A controller that sends StartRecord without a connection.
obs_start_recording_unconnected == <<"start">>

\* A controller that sends StartRecord twice.
obs_start_recording_twice == <<"start", "start">>

\* obs_client.py 359-361 and 494-509: start_recording() sends StartRecord to the
\* device only when the controller is connected.
obs_start_recording == IF obsConnected THEN <<"start">> ELSE <<>>

\* logic.py 119-123: readiness signalled, self.obs.start_recording(), then sleep(1).
\* With self.obs cleared meanwhile the call raises AttributeError, caught at 134.
start_issue ==
    /\ hpc = "start_wait"
    /\ readiness_wait_over(obs_ready)
    /\ IF obs
       THEN /\ cmds' = cmds \o obs_start_recording
            /\ lastCmd' = IF obs_start_recording # <<>> THEN "start" ELSE lastCmd
            /\ scen' = IF obs_start_recording # <<>> THEN ScenCmd("start") ELSE scen
            /\ hpc' = "start_settle"
            /\ UNCHANGED <<previous_phase, ret, action_result>>
       ELSE /\ ActionRaised("AttributeError")
            /\ UNCHANGED <<cmds, lastCmd, scen>>
    /\ UNCHANGED <<gameflow_session, in_game, is_recording, queue_status, game_dodge,
                   obs, obs_ready, is_debug, initpc, obsConnected, inp, faithful>>

StartIssue ==
    /\ start_issue
    /\ UNCHANGED <<cvars, mvars, tvars>>

\* A start action that takes the command for the state.
is_recording_after_start_desired(recording, active) == TRUE

\* logic.py 126-127: is_recording becomes True only when the re-query says so.
is_recording_after_start(recording, active) == recording \/ active

\* logic.py 126-132: the status re-query after the start.
start_settle(answer) ==
    /\ hpc = "start_settle"
    /\ IF obs
       THEN /\ is_recording' = is_recording_after_start(is_recording,
                                                        obs_is_recording(answer))
            /\ action_result' = IF obs_is_recording(answer) THEN "True" ELSE "False"
            /\ faithful' = (faithful /\ obs_is_recording(answer))
            /\ scen' = ScenKeep(scen, faithful', TRUE)
            /\ Finish
       ELSE /\ ActionRaised("AttributeError")
            /\ UNCHANGED <<is_recording, faithful, scen>>
    /\ UNCHANGED <<gameflow_session, in_game, queue_status, game_dodge, obs,
                   obs_ready, is_debug, initpc, obsConnected, inp, cmds, lastCmd>>

StartSettle(answer) ==
    /\ start_settle(answer)
    /\ UNCHANGED <<cvars, mvars, tvars>>

\* A stop action that takes the stop for done whatever the re-query says.
stop_failed_never(active) == FALSE

\* logic.py 156-158: the re-query after the stop still reports active.
stop_failed(active) == active

\* logic.py 170-178: what the stop action returns after modify_last_recording
\* returned True, returned False, or raised (caught by `except Exception`).
rename_result(renamed) == IF renamed = "True" THEN "True" ELSE "False"

\* logic.py 156-178: the status re-query after the stop; is_recording becomes
\* False at line 160, before the last path is fetched and the rename is tried.
stop_flush(answer) ==
    /\ hpc = "stop_flush"
    /\ IF obs
       THEN /\ IF stop_failed(obs_is_recording(answer))
               THEN /\ faithful' = FALSE
                    /\ scen' = ScenNone
                    /\ action_result' = "False"
                    /\ UNCHANGED <<is_recording, cmds>>
               ELSE /\ is_recording' = FALSE
                    /\ IF obs_get_last_recording_path # Nil
                       THEN \E renamed \in {"True", "False", "raises"} :
                              /\ cmds' = Append(cmds, <<"rename",
                                        new_name(get_queue_type(Payload), Payload)>>)
                              /\ action_result' = rename_result(renamed)
                       ELSE /\ cmds' = cmds
                            /\ action_result' = "True"
                    /\ UNCHANGED <<faithful, scen>>
            /\ Finish
       ELSE /\ ActionRaised("AttributeError")
            /\ UNCHANGED <<is_recording, cmds, faithful, scen>>
    /\ UNCHANGED <<gameflow_session, in_game, queue_status, game_dodge, obs,
                   obs_ready, is_debug, initpc, obsConnected, inp, lastCmd>>

StopFlush(answer) ==
    /\ stop_flush(answer)
    /\ UNCHANGED <<cvars, mvars, tvars>>

\* A cleanup that an exception of the stop call ends.
cleanup_calls_unprotected(recording, stop_raises) ==
    IF recording
    THEN (IF stop_raises THEN <<"stop">> ELSE <<"stop", "disconnect">>)
    ELSE <<"disconnect">>

\* logic.py 268-278: the controller calls of cleanup(), each in a try with a
\* bare except, so that what the stop call raises changes nothing.
cleanup_calls(recording, stop_raises) ==
    (IF recording THEN <<"stop">> ELSE <<>>) \o <<"disconnect">>

\* logic.py 264-282: cleanup(), called by main.shutdown once the listener is
\* over or cancelled; nothing of this object runs afterwards. The controller
\* calls return, or raise (an interrupt arriving during the call). An
\* initialization task still pending is cancelled by the shutdown (main.py
\* 48, 55-63): its finally (logic.py 77-79) and its done callback (59) set
\* obs_ready.
Cleanup(stop_raises, disconnect_raises) ==
    /\ hpc # "down"
    /\ hpc' = "down"
    /\ initpc' = IF initpc = "none" THEN "none" ELSE "done"
    /\ obs' = FALSE
    /\ IF obs
       THEN /\ cmds' = cmds \o cleanup_calls(is_recording, stop_raises)
            /\ lastCmd' = IF is_recording THEN "stop" ELSE lastCmd
            /\ cleanup_errors' =
                  (IF is_recording /\ stop_raises THEN <<"stop">> ELSE <<>>)
                  \o (IF disconnect_raises THEN <<"disconnect">> ELSE <<>>)
       ELSE UNCHANGED <<cmds, lastCmd, cleanup_errors>>
    /\ scen' = ScenNone
    /\ obs_ready' = (obs_ready \/ initpc \in {"connect", "profile"})
    /\ UNCHANGED <<gameflow_session, previous_phase, in_game, is_recording,
                   queue_status, game_dodge, is_debug, obsConnected, inp,
                   ret, action_result, faithful>>
    /\ UNCHANGED <<cvars, mvars>>

LogicNext ==
    \/ \E ok \in BOOLEAN : InitConnect(ok)
    \/ \E ok \in BOOLEAN : InitProfile(ok)
    \/ \E p \in Payloads : HandleGameflow(p)
    \/ StartTimeout
    \/ StartIssue
    \/ \E answer \in BOOLEAN : StartSettle(answer)
    \/ \E answer \in BOOLEAN : StopFlush(answer)
    \/ \E stop_raises, disconnect_raises \in BOOLEAN :
          Cleanup(stop_raises, disconnect_raises)

----------------------------------------------------------------------------
(* api.py: LCUWebSocket, run by main.py: main *)

MAX_RETRIES == 3

\* Strings that are searched for substrings are sequences of their segments.
Topic == <<"lol-gameflow", "_v1_session">>     \* main.py 86: 'lol-gameflow_v1_session'

\* The keys of a dict of handlers.
Paths(h) == {h[i].path : i \in DOMAIN h}

\* self.event_handlers[k] = v: a new key goes last, a known key keeps its place.
dict_set(h, k, v) ==
    IF k \in Paths(h)
    THEN [i \in DOMAIN h |-> IF h[i].path = k THEN [path |-> k, handler |-> v]
                                              ELSE h[i]]
    ELSE Append(h, [path |-> k, handler |-> v])

ConnInit ==
    /\ websocket = "None"
    /\ event_handlers = <<>>
    /\ running = FALSE
    /\ attempt = 0
    /\ tok = "none"
    /\ cpc = "idle"
    /\ lpc = "off"
    /\ leftBy = "none"
    /\ clpc = "idle"
    /\ closeTarget = "none"
    /\ mpc = "start"
    /\ mainErr = "none"
    /\ lcuUp = FALSE
    /\ transport = "none"
    /\ openedBy = "none"
    /\ subscribed = {}

Closed(t) == t \in {"closed_error", "closed_clean"}

\* A close() without the guard on the running flag.
CloseCall_unguarded(who, after) ==
    /\ running' = FALSE
    /\ IF websocket = "set"
       THEN /\ clpc' = who
            /\ closeTarget' = "current"
            /\ mpc' = IF who = "other" THEN after ELSE "in_close"
       ELSE /\ mpc' = after
            /\ UNCHANGED <<clpc, closeTarget>>

\* api.py 136-151, up to the await of websocket.close(): the guard, the flag,
\* and the close of the transport self.websocket holds.  `after` is where
\* main() stands once the call has returned.
CloseCall(who, after) ==
    IF ~running
    THEN /\ mpc' = after
         /\ UNCHANGED <<running, clpc, closeTarget>>
    ELSE /\ running' = FALSE
         /\ IF websocket = "set"
            THEN /\ clpc' = who
                 /\ closeTarget' = "current"
                 /\ mpc' = IF who = "other" THEN after ELSE "in_close"
            ELSE /\ mpc' = after
                 /\ UNCHANGED <<clpc, closeTarget>>

\* main.py 95-102 after connection().__aexit__: the exception that left the
\* `async with` block, and close() called by the context manager (api.py 31-32).
MainUnwind(err) ==
    /\ mainErr' = err
    /\ CloseCall("ctx", "shutdown")

\* main.py 81: entering client.connection() calls connect().
MainConnect ==
    /\ mpc = "start"
    /\ mpc' = "connect"
    /\ cpc' = "auth"
    /\ attempt' = 0
    /\ UNCHANGED <<leftBy, websocket, event_handlers, running, tok, lpc, clpc, closeTarget,
                   mainErr, lcuUp, transport, openedBy, subscribed>>
    /\ UNCHANGED <<lvars, mvars, tvars>>

\* api.py 61-67: an attempt failed; the last one raises ConnectionError to the
\* caller of connect(), the others go to sleep(RETRY_INTERVAL).
\* A retry loop that gives up one attempt early.
last_attempt_early(a) == a = MAX_RETRIES - 2

\* api.py 64: if attempt == self.MAX_RETRIES - 1
last_attempt(a) == a = MAX_RETRIES - 1

AttemptFailed ==
    IF last_attempt(attempt)
    THEN /\ cpc' = "idle"
         /\ IF lpc = "reconnect"
            THEN /\ lpc' = "raised"
                 /\ MainUnwind("ConnectionError")
            ELSE /\ lpc' = lpc
                 /\ MainUnwind("ConnectionError")
    ELSE /\ cpc' = "backoff"
         /\ UNCHANGED <<lpc, mpc, mainErr, running, clpc, closeTarget>>

\* api.py 38-40: await self.auth.get_auth(); an absent port or token raises
\* inside the try and is handled as a failed attempt.
ConnectAuth ==
    /\ cpc = "auth"
    /\ tok' = IF lcuUp THEN "current" ELSE "absent"
    /\ IF lcuUp
       THEN /\ cpc' = "open"
            /\ UNCHANGED <<lpc, mpc, mainErr, running, clpc, closeTarget>>
       ELSE AttemptFailed
    /\ UNCHANGED <<leftBy, websocket, event_handlers, attempt, lcuUp, transport, openedBy,
                   subscribed>>
    /\ UNCHANGED <<lvars, mvars, tvars>>

\* api.py 51-59: await websockets.connect(...): the handshake succeeds only with
\* the current credential of a running client, and may fail then too.
ConnectOpen(ok) ==
    /\ cpc = "open"
    /\ IF ok /\ lcuUp /\ tok = "current"
       THEN /\ websocket' = "set"
            /\ transport' = "open"
            /\ subscribed' = {}
            /\ openedBy' = IF lpc = "reconnect" THEN "listen" ELSE "main"
            /\ closeTarget' = IF closeTarget = "current" THEN "old" ELSE closeTarget
            /\ cpc' = "idle"
            /\ lpc' = IF lpc = "reconnect" THEN "loop" ELSE lpc
            /\ mpc' = IF mpc = "connect" THEN "subscribe" ELSE mpc
            /\ UNCHANGED <<mainErr, running, clpc>>
       ELSE /\ AttemptFailed
            /\ UNCHANGED <<websocket, transport, subscribed, openedBy>>
    /\ UNCHANGED <<leftBy, event_handlers, attempt, tok, lcuUp>>
    /\ UNCHANGED <<lvars, mvars, tvars>>

\* api.py 67 and 36: the backoff is over, the next attempt begins.
ConnectBackoff ==
    /\ cpc = "backoff"
    /\ attempt' = attempt + 1
    /\ cpc' = "auth"
    /\ UNCHANGED <<leftBy, websocket, event_handlers, running, tok, lpc, clpc, closeTarget,
                   mpc, mainErr, lcuUp, transport, openedBy, subscribed>>
    /\ UNCHANGED <<lvars, mvars, tvars>>

\* main.py 86, api.py 69-79: subscribe(Topic, handle_events); the send raises
\* ConnectionClosed on a transport that is closed.
MainSubscribe ==
    /\ mpc = "subscribe"
    /\ IF websocket = "set" /\ transport = "open"
       THEN /\ subscribed' = subscribed \cup {Topic}
            /\ event_handlers' = dict_set(event_handlers, Topic, "handle_events")
            /\ mpc' = "listen_call"
            /\ UNCHANGED <<mainErr, running, clpc, closeTarget>>
       ELSE /\ MainUnwind(IF websocket = "set" THEN "Exception"
                          ELSE "ConnectionError")
            /\ UNCHANGED <<subscribed, event_handlers>>
    /\ UNCHANGED <<leftBy, websocket, attempt, tok, cpc, lpc, lcuUp, transport, openedBy>>
    /\ UNCHANGED <<lvars, mvars, tvars>>

\* main.py 90, api.py 83: listen() sets the flag and enters its loop.
MainListen ==
    /\ mpc = "listen_call"
    /\ mpc' = "listen"
    /\ running' = TRUE
    /\ lpc' = "loop"
    /\ UNCHANGED <<leftBy, websocket, event_handlers, attempt, tok, cpc, clpc, closeTarget,
                   mainErr, lcuUp, transport, openedBy, subscribed>>
    /\ UNCHANGED <<lvars, mvars, tvars>>

\* listen() returned: main() leaves the `async with` block without exception.
ListenReturns(by) ==
    /\ lpc' = "exit"
    /\ leftBy' = by
    /\ MainUnwind("none")

\* api.py 86-88: `while self._running`, then `async for` awaits a message.
ListenLoop ==
    /\ mpc = "listen"
    /\ lpc = "loop"
    /\ IF running
       THEN /\ lpc' = "recv"
            /\ UNCHANGED <<running, leftBy, clpc, closeTarget, mpc, mainErr>>
       ELSE ListenReturns("while")
    /\ UNCHANGED <<websocket, event_handlers, attempt, tok, cpc, lcuUp, transport,
                   openedBy, subscribed>>
    /\ UNCHANGED <<lvars, mvars, tvars>>

\* api.py 88-92: a frame arrives; the event source sends only what the
\* transport has subscribed to.  Not running: break, and the while ends.
ListenMessage ==
    /\ mpc = "listen"
    /\ lpc = "recv"
    /\ transport = "open"
    /\ subscribed # {}
    /\ IF running
       THEN /\ lpc' = "handle"
            /\ UNCHANGED <<running, leftBy, clpc, closeTarget, mpc, mainErr>>
       ELSE ListenReturns("break")
    /\ UNCHANGED <<websocket, event_handlers, attempt, tok, cpc, lcuUp, transport,
                   openedBy, subscribed>>
    /\ UNCHANGED <<lvars, mvars, tvars>>

\* api.py 92, 106-134: _handle_message is over, the next frame is awaited.
ListenHandled ==
    /\ mpc = "listen"
    /\ lpc = "handle"
    /\ lpc' = "recv"
    /\ UNCHANGED <<leftBy, websocket, event_handlers, running, attempt, tok, cpc, clpc,
                   closeTarget, mpc, mainErr, lcuUp, transport, openedBy, subscribed>>
    /\ UNCHANGED <<lvars, mvars, tvars>>

\* The listener that reconnects whatever the flag says.
on_connection_closed_always(run) == "reconnect"

\* api.py 93-98: what the ConnectionClosed handler does.
on_connection_closed(run) == IF run THEN "reconnect" ELSE "break"

\* api.py 93-98: the iteration raises ConnectionClosed (the transport was
\* closed with an error code or without a close frame).
ListenClosedError ==
    /\ mpc = "listen"
    /\ lpc = "recv"
    /\ transport = "closed_error"
    /\ IF on_connection_closed(running) = "reconnect"
       THEN /\ lpc' = "reconnect"
            /\ cpc' = "auth"
            /\ attempt' = 0
            /\ UNCHANGED <<running, leftBy, clpc, closeTarget, mpc, mainErr>>
       ELSE /\ ListenReturns("except")
            /\ UNCHANGED <<cpc, attempt>>
    /\ UNCHANGED <<websocket, event_handlers, tok, lcuUp, transport, openedBy,
                   subscribed>>
    /\ UNCHANGED <<lvars, mvars, tvars>>

\* api.py 88: the iteration ends without exception (the transport was closed
\* with a normal close code); control is back at `while self._running`.
ListenClosedClean ==
    /\ mpc = "listen"
    /\ lpc = "recv"
    /\ transport = "closed_clean"
    /\ lpc' = "loop"
    /\ UNCHANGED <<leftBy, websocket, event_handlers, running, attempt, tok, cpc, clpc,
                   closeTarget, mpc, mainErr, lcuUp, transport, openedBy, subscribed>>
    /\ UNCHANGED <<lvars, mvars, tvars>>

\* api.py 146: the await of websocket.close() is over: that transport is closed.
CloseTransport ==
    /\ clpc \in {"ctx", "other"}
    /\ transport' = IF closeTarget = "current" /\ transport = "open"
                    THEN "closed_clean" ELSE transport
    /\ clpc' = IF clpc = "ctx" THEN "ctx_clear" ELSE "other_clear"
    /\ UNCHANGED <<leftBy, websocket, event_handlers, running, attempt, tok, cpc, lpc,
                   closeTarget, mpc, mainErr, lcuUp, openedBy, subscribed>>
    /\ UNCHANGED <<lvars, mvars, tvars>>

\* api.py 150-151: finally self.websocket = None, and close() returns.
CloseClear ==
    /\ clpc \in {"ctx_clear", "other_clear"}
    /\ websocket' = "None"
    /\ clpc' = "idle"
    /\ closeTarget' = "none"
    /\ mpc' = IF clpc = "ctx_clear" THEN "shutdown" ELSE mpc
    /\ UNCHANGED <<leftBy, event_handlers, running, attempt, tok, cpc, lpc, mainErr, lcuUp,
                   transport, openedBy, subscribed>>
    /\ UNCHANGED <<lvars, mvars, tvars>>

\* main.py 41-72: shutdown() in main()'s finally calls client.close() again.
MainShutdown ==
    /\ mpc = "shutdown"
    /\ CloseCall("ctx", "done")
    /\ UNCHANGED <<leftBy, websocket, event_handlers, attempt, tok, cpc, lpc, mainErr, lcuUp,
                   transport, openedBy, subscribed>>
    /\ UNCHANGED <<lvars, mvars, tvars>>

\* close() called by another task while listen() runs (api.py 136-151).
OtherClose ==
    /\ mpc = "listen"
    /\ clpc = "idle"
    /\ CloseCall("other", mpc)
    /\ UNCHANGED <<leftBy, websocket, event_handlers, attempt, tok, cpc, lpc, mainErr, lcuUp,
                   transport, openedBy, subscribed>>
    /\ UNCHANGED <<lvars, mvars, tvars>>

\* main.py 92-94: the process is interrupted; the pending awaits of main() are
\* cancelled and the `async with` block is left.
Interrupt ==
    /\ mpc \in {"connect", "subscribe", "listen_call", "listen"}
    /\ clpc \notin {"ctx", "ctx_clear"}
    /\ cpc' = "idle"
    /\ lpc' = IF lpc \in {"loop", "recv", "handle", "reconnect"} THEN "cancelled"
              ELSE lpc
    /\ IF clpc = "idle"
       THEN MainUnwind("Cancelled")
       ELSE /\ mainErr' = "Cancelled"
            /\ mpc' = "shutdown"
            /\ UNCHANGED <<running, clpc, closeTarget>>
    /\ UNCHANGED <<leftBy, websocket, event_handlers, attempt, tok, lcuUp, transport,
                   openedBy, subscribed>>
    /\ UNCHANGED <<lvars, mvars, tvars>>

\* The game client exits; its transports go down with it, with or without a
\* normal close code, and its credential is no longer valid.
LcuDown(kind) ==
    /\ lcuUp
    /\ lcuUp' = FALSE
    /\ transport' = IF transport = "open" THEN kind ELSE transport
    /\ tok' = IF tok = "current" THEN "stale" ELSE tok
    /\ UNCHANGED <<leftBy, websocket, event_handlers, running, attempt, cpc, lpc, clpc,
                   closeTarget, mpc, mainErr, openedBy, subscribed>>
    /\ UNCHANGED <<lvars, mvars, tvars>>

\* The game client starts, with a new port and credential.
LcuStart ==
    /\ ~lcuUp
    /\ lcuUp' = TRUE
    /\ UNCHANGED <<leftBy, websocket, event_handlers, running, attempt, tok, cpc, lpc, clpc,
                   closeTarget, mpc, mainErr, transport, openedBy, subscribed>>
    /\ UNCHANGED <<lvars, mvars, tvars>>

ConnNext ==
    \/ MainConnect
    \/ ConnectAuth
    \/ \E ok \in BOOLEAN : ConnectOpen(ok)
    \/ ConnectBackoff
    \/ MainSubscribe
    \/ MainListen
    \/ ListenLoop
    \/ ListenMessage
    \/ ListenHandled
    \/ ListenClosedError
    \/ ListenClosedClean
    \/ CloseTransport
    \/ CloseClear
    \/ MainShutdown
    \/ OtherClose
    \/ Interrupt
    \/ \E kind \in {"closed_error", "closed_clean"} : LcuDown(kind)
    \/ LcuStart

----------------------------------------------------------------------------
(* api.py: _handle_message, dispatching the frames read by listen() to the
   registered handlers, among them LCUGameLogic.handle_events *)

MaxFrameLen == 4

\* The other keys handlers are registered under.
KeyGameflow == <<"lol-gameflow">>
KeyChampSelect == <<"lol-champ-select">>

\* data[1] of a frame: a string, a number, or a list of strings.
StrEvent(str) == [kind |-> "str", str |-> str, items |-> <<>>]
EventTypes ==
    {StrEvent(<<"OnJsonApiEvent_", "lol-gameflow", "_v1_session">>),
     StrEvent(<<"OnJsonApiEvent_", "lol-champ-select", "_v1_session">>),
     [kind |-> "int", str |-> <<>>, items |-> <<>>],
     [kind |-> "list", str |-> <<>>, items |-> <<Topic>>]}

\* data[2] of a frame: session documents.
MsgPayloads ==
    {p \in Payloads : /\ p.phase \in {"Lobby", "ReadyCheck", "None"}
                      /\ p.queue = "RANKED_SOLO_5x5"
                      /\ p.dodge = NoDodge}

NoEvent == [kind |-> "none", str |-> <<>>, items |-> <<>>]
NoData == CHOOSE p \in MsgPayloads : p.phase = "None"

\* The frames: text that is not JSON, a JSON object, and JSON arrays of 0 to
\* MaxFrameLen elements.
Frames ==
    {[json |-> j, len |-> 0, event_type |-> NoEvent, event_data |-> NoData] :
        j \in {"malformed", "object"}}
    \cup {[json |-> "array", len |-> n, event_type |-> NoEvent, event_data |-> NoData] :
            n \in 0..2}
    \cup {[json |-> "array", len |-> n, event_type |-> et, event_data |-> p] :
            n \in 3..MaxFrameLen, et \in EventTypes, p \in MsgPayloads}

\* api.py 69, 74: the default event_path of subscribe, for which the frame
\* [5, "OnJsonApiEvent"] (every event) is sent; lines 77-79 store the handler
\* under this key as under any other.
Wildcard == <<"*">>

\* The registries of the runs: the one main() builds, and registries with more
\* handlers, which return or raise, around it or registered under the wildcard.
Entry(k, v) == [path |-> k, handler |-> v]
Registries ==
    {<<Entry(Topic, "handle_events")>>,
     <<Entry(KeyGameflow, "returns"), Entry(Topic, "handle_events"),
       Entry(KeyChampSelect, "returns")>>,
     <<Entry(KeyGameflow, "raises"), Entry(Topic, "handle_events")>>,
     <<Entry(Topic, "handle_events"), Entry(KeyGameflow, "returns")>>,
     <<Entry(Wildcard, "returns"), Entry(Topic, "handle_events")>>}

\* logic.py 18-20: self.handlers
logic_handlers == {Topic}

\* api.py 109-113: json.loads and the shape test.
decode(f) ==
    CASE f.json = "malformed" -> "JSONDecodeError"
      [] f.json # "array" \/ f.len <= 2 -> "invalid"
      [] OTHER -> "ok"

\* Python's `a in b` for strings a and b.
IsSubstring(a, b) ==
    /\ Len(a) <= Len(b)
    /\ \E i \in 0..(Len(b) - Len(a)) : SubSeq(b, i + 1, i + Len(a)) = a

\* api.py 126: `path in event_type`, which is a substring test on a string, a
\* membership test on a list and a TypeError on a number.
path_in(path, event_type) ==
    CASE event_type.kind = "str" ->
           IF IsSubstring(path, event_type.str) THEN "True" ELSE "False"
      [] event_type.kind = "list" ->
           IF \E i \in DOMAIN event_type.items : event_type.items[i] = path
           THEN "True" ELSE "False"
      [] OTHER -> "TypeError"

\* api.py 125-127: the loop over self.event_handlers from entry i on, up to its
\* end, to an exception, or to the call of _handle_gameflow by handle_events
\* (logic.py 108-109): the invocations made, and how it stopped.
RECURSIVE dispatch(_, _, _)
dispatch(h, f, i) ==
    IF i > Len(h) THEN [log |-> <<>>, stop |-> "end", at |-> 0]
    ELSE LET m == path_in(h[i].path, f.event_type)
             call == <<h[i].path, f.event_data>>
         IN  IF m = "TypeError" THEN [log |-> <<>>, stop |-> "raised", at |-> 0]
             ELSE IF m = "False" THEN dispatch(h, f, i + 1)
             ELSE IF h[i].handler = "raises"
                  THEN [log |-> <<call>>, stop |-> "raised", at |-> 0]
             ELSE IF h[i].handler = "handle_events" /\ h[i].path \in logic_handlers
                  THEN [log |-> <<call>>, stop |-> "gameflow", at |-> i]
             ELSE LET r == dispatch(h, f, i + 1)
                  IN  [r EXCEPT !.log = <<call>> \o @]

\* A _handle_message that catches decoding errors only.
handle_message_catches_decode_only(exc) == exc = "JSONDecodeError"

\* api.py 128-134: except json.JSONDecodeError, except Exception.
handle_message_catches(exc) == exc \in {"JSONDecodeError", "Exception"}

\* A listen() that does not wait for _handle_message.
listen_after_dispatch_no_await(returned) == "recv"

\* api.py 92: `await self._handle_message(message)`: listen() reads the next
\* frame once _handle_message has returned.
listen_after_dispatch(returned) == IF returned THEN "recv" ELSE "handle"

\* _handle_message ends with exception exc, or without (exc = "none"): caught
\* and logged inside, or raised to listen(), whose handler (api.py 99-101)
\* logs it and sleeps.
MessageEnds(exc, how) ==
    /\ fi' = 0
    /\ IF exc = "none" \/ handle_message_catches(exc)
       THEN /\ outcome' = how
            /\ lpc' = listen_after_dispatch(TRUE)
       ELSE /\ outcome' = "raised"
            /\ lpc' = "pause"

\* The rest of _handle_message for frame f after the invocations `log`, from
\* entry i on, once the handler called last has returned; a handler that is
\* suspended keeps _handle_message, and listen(), waiting.
AfterHandler(f, log, i) ==
    IF hpc' # "idle"
    THEN /\ invoked' = log
         /\ fi' = i
         /\ outcome' = "suspended"
         /\ lpc' = listen_after_dispatch(FALSE)
    ELSE IF ret' = "raised"
    THEN /\ invoked' = log
         /\ MessageEnds("Exception", "error_logged")
    ELSE LET r == dispatch(event_handlers, f, i)
         IN  /\ invoked' = log \o r.log
             /\ IF r.stop = "raised" THEN MessageEnds("Exception", "error_logged")
                ELSE MessageEnds("none", "done")

MsgUnchanged ==
    UNCHANGED <<websocket, event_handlers, running, attempt, tok, cpc, leftBy, clpc,
                closeTarget, mpc, mainErr, lcuUp, transport, openedBy, subscribed,
                cleanup_errors>>

\* api.py 88-92 and 106-134: listen() reads frame f and _handle_message runs up
\* to its end or to the first await on which a handler is suspended.
MsgReceive(f) ==
    /\ mpc = "listen"
    /\ lpc = "recv"
    /\ running
    /\ transport = "open"
    /\ frame' = <<f>>
    /\ IF decode(f) # "ok"
       THEN /\ invoked' = <<>>
            /\ IF decode(f) = "invalid" THEN MessageEnds("none", "invalid")
               ELSE MessageEnds(decode(f), "decode_error")
            /\ UNCHANGED lvars
       ELSE LET r == dispatch(event_handlers, f, 1)
            IN  IF r.stop = "gameflow"
                THEN /\ handle_gameflow(f.event_data)
                     /\ AfterHandler(f, r.log, r.at + 1)
                ELSE /\ invoked' = r.log
                     /\ IF r.stop = "raised"
                        THEN MessageEnds("Exception", "error_logged")
                        ELSE MessageEnds("none", "done")
                     /\ UNCHANGED lvars
    /\ MsgUnchanged

\* The suspended _handle_gameflow goes on (logic.py 117-132, 153-174), and with
\* its return so does _handle_message.
MsgResumed ==
    /\ outcome = "suspended"
    /\ frame' = frame
    /\ AfterHandler(frame[1], invoked, fi)
    /\ MsgUnchanged

MsgStartTimeout == start_timeout /\ MsgResumed

MsgStartIssue == start_issue /\ MsgResumed

MsgStartSettle(answer) == start_settle(answer) /\ MsgResumed

MsgStopFlush(answer) == stop_flush(answer) /\ MsgResumed

MsgNext ==
    \/ \E f \in Frames : MsgReceive(f)
    \/ MsgStartTimeout
    \/ MsgStartIssue
    \/ \E answer \in BOOLEAN : MsgStartSettle(answer)
    \/ \E answer \in BOOLEAN : MsgStopFlush(answer)
    \/ \E ok \in BOOLEAN : InitConnect(ok)
    \/ \E ok \in BOOLEAN : InitProfile(ok)

MsgInit ==
    /\ frame = <<>>
    /\ invoked = <<>>
    /\ fi = 0
    /\ outcome = "none"

\* listen() waits for a frame on the transport connect() opened, with a
\* registry built by subscribe() calls.
ListeningInit ==
    /\ websocket = "set"
    /\ event_handlers \in Registries
    /\ running = TRUE
    /\ attempt = 0
    /\ tok = "current"
    /\ cpc = "idle"
    /\ lpc = "recv"
    /\ leftBy = "none"
    /\ clpc = "idle"
    /\ closeTarget = "none"
    /\ mpc = "listen"
    /\ mainErr = "none"
    /\ lcuUp = TRUE
    /\ transport = "open"
    /\ openedBy = "main"
    /\ subscribed = Paths(event_handlers)

----------------------------------------------------------------------------
(* The specifications: the phase state machine fed with session payloads, and
   the connection run by main(). *)

Init == LogicInit /\ ConnInit /\ MsgInit

Next == LogicNext

Spec == Init /\ [][Next]_vars

SpecConn == Init /\ [][ConnNext]_vars

InitMsg == LogicInit /\ ListeningInit /\ MsgInit

SpecMsg == InitMsg /\ [][MsgNext]_vars


----------------------------------------------------------------------------
(* Properties of the phase state machine *)

ExpectedCmds == <<<<>>, <<"start">>, <<>>, <<"stop">>>>

ScenarioDone == hpc = "idle" /\ Len(scen.ev) = 4

\* C1, as stated: with a controller present that confirms every start and stop,
\* a plain queue and is_recording false at the start, the calls for Lobby,
\* ReadyCheck, ChampSelect, None issue one start (in the ReadyCheck call) and
\* one stop (in the None call), nothing in the Lobby and ChampSelect calls.
C1_OrderingAsStated == ScenarioDone => scen.ev = ExpectedCmds

\* C1, amended: the same, for a controller whose readiness signal was set when
\* the Lobby call began (so that no readiness wait of the scenario times out).
C1_Ordering == (ScenarioDone /\ scen.rdy) => scen.ev = ExpectedCmds

C1_Witness == ScenarioDone /\ scen.rdy /\ scen.ev = ExpectedCmds /\ ~is_recording

StartIssuedStep == hpc = "start_wait" /\ cmds' = Append(cmds, "start")
StopIssuedStep == hpc = "idle" /\ hpc' = "stop_flush"

\* C2: whatever the events and the controller's answers, the state machine never
\* issues a start right after a start, nor a stop right after a stop.
C2_NoDoubleTrigger ==
    [][/\ StartIssuedStep => lastCmd # "start"
       /\ StopIssuedStep => lastCmd # "stop"]_vars

\* C3: a call with the payload of the call before it returns at the change
\* filter, leaves the cache and the phase state as they are and issues no command.
C3_Idempotent ==
    [][(inp # <<>> /\ HandleGameflow(inp[1]))
         => /\ ret' = "filter"
            /\ hpc' = "idle"
            /\ cmds' = <<>>
            /\ UNCHANGED <<gameflow_session, previous_phase, in_game, is_recording,
                           game_dodge, queue_status, lastCmd>>]_vars

C3_Witness ==
    /\ ret = "filter" /\ hpc = "idle" /\ inp = gameflow_session
    /\ previous_phase # current_phase(Payload)

GatedCall(p) ==
    /\ HandleGameflow(p)
    /\ ~is_debug
    /\ get_queue_type(p) \in ignored_queue_types

\* C4, as stated: not in debug mode, after a call with an ignored queue type
\* that the change filter let through, previous_phase is the payload's phase.
C4_PhasePersistedAsStated ==
    (hpc = "idle" /\ ret = "gate") => previous_phase = current_phase(Payload)

\* What logic.py 195-198 does instead: not in debug mode, a call with an ignored
\* queue type that the change filter lets through returns at the gate and
\* leaves previous_phase as it was; only a call that passes the gate persists it.
C4_PhaseNotPersisted ==
    [][\A p \in Payloads :
         (GatedCall(p) /\ gameflow_session # <<p>>)
            => (ret' = "gate" /\ previous_phase' = previous_phase)]_vars

C4_Witness ==
    /\ hpc = "idle" /\ ret = "gate"
    /\ previous_phase \notin {Nil, current_phase(Payload)}

\* C5: not in debug mode, a call whose queue type is one of the four ignored
\* ones issues no command and leaves in_game and is_recording as they are,
\* whatever the payload's phase and the previous phase.
C5_IgnoredQueue ==
    /\ [](\A q \in ignored_queue_types : ~is_debug => gate_fires(q))
    /\ [][\A p \in Payloads :
            GatedCall(p) => /\ hpc' = "idle"
                            /\ cmds' = <<>>
                            /\ lastCmd' = lastCmd
                            /\ in_game' = in_game
                            /\ is_recording' = is_recording]_vars

C5_Witness ==
    /\ hpc = "idle" /\ ret = "gate" /\ obs /\ obs_ready /\ ~is_recording
    /\ current_phase(Payload) = "ReadyCheck" /\ previous_phase = "Lobby"
    /\ get_queue_type(Payload) = "TUTORIAL_MODULE_1"

----------------------------------------------------------------------------
(* Connection claims, checked under SpecConn. *)

\* A step of listen() that leaves the wait for a frame.
ListenLeavesRecv == lpc = "recv" /\ lpc' \notin {"recv", "cancelled"}

\* C6: when the transport closes while listen() waits for a frame and the
\* running flag is true, listen() calls connect(), which starts with its first
\* attempt and asks the Auth Provider again; when that call has succeeded the
\* loop is back on a new, open transport opened with the current credential.
C6_ReconnectOnClosure ==
    /\ [][(ListenLeavesRecv /\ Closed(transport) /\ running)
            => (lpc' = "reconnect" /\ cpc' = "auth" /\ attempt' = 0)]_vars
    /\ [][(lpc = "reconnect" /\ lpc' = "loop")
            => (transport' = "open" /\ tok' = "current")]_vars

\* C7: once listen() has reconnected and waits for frames on the transport it
\* opened, every registered topic has been subscribed on that transport.
C7_ResubscribedAfterReconnect ==
    (lpc = "recv" /\ openedBy = "listen" /\ transport = "open")
        => Paths(event_handlers) \subseteq subscribed

\* C8: listen() never terminates with an error: a reconnect that exhausts its
\* retries does not raise out of the listener.
C8_ListenerNeverRaises == lpc # "raised"

\* C9: once the running flag is false, a closure of the transport or the end of
\* the message loop never makes listen() call connect(): the listener's next
\* step goes to the loop test or out of the loop, and the loop test exits.
C9_NoReconnectWhenClosing ==
    /\ [][(~running /\ ListenLeavesRecv) => lpc' \in {"loop", "exit"}]_vars
    /\ [][(~running /\ lpc = "loop" /\ lpc' \notin {"loop", "cancelled"})
            => lpc' = "exit"]_vars
    /\ [][(lpc # "reconnect" /\ lpc' = "reconnect") => running]_vars

\* listen() has left its loop on a connection-closed exception raised after
\* close() had flipped the flag.
C9_Witness ==
    /\ lpc = "exit"
    /\ leftBy = "except"
    /\ ~running
    /\ transport = "closed_error"
    /\ mainErr = "none"

\* C10: when the process is through its shutdown, the transport reference is
\* cleared and no transport is open.
C10_NothingLeftOpen ==
    mpc = "done" => (websocket = "None" /\ transport # "open")

\* close() has flipped the running flag: listen() had set it, and it is false.
CloseBegun == ~running /\ lpc # "off"

\* C11: once close() has flipped the running flag, connect() makes no further
\* attempt after a backoff and no transport is opened.
C11_ClosedIsTerminal ==
    [][CloseBegun => /\ ~(cpc = "backoff" /\ cpc' = "auth")
                     /\ ~(cpc = "open" /\ transport' = "open")]_vars

\* C12: the close() of shutdown(), which follows the close() of the context
\* manager, returns without changing the running flag or the transport
\* reference and without closing a transport.
C12_SecondCloseNoOp ==
    [][(mpc = "shutdown" /\ mpc' # "shutdown")
         => /\ mpc' = "done"
            /\ UNCHANGED <<running, websocket, transport, clpc, closeTarget,
                           mainErr>>]_vars

\* Both close() calls are over, and the first one had closed the transport and
\* cleared the reference.
C12_Witness ==
    /\ mpc = "done"
    /\ clpc = "idle"
    /\ lpc = "cancelled"
    /\ websocket = "None"
    /\ transport = "closed_clean"

\* A step in which the connect() call in progress ends, other than by
\* cancellation.
ConnectEnds == cpc # "idle" /\ cpc' = "idle" /\ mainErr' # "Cancelled"

\* C13: connect() makes at most MAX_RETRIES attempts, backs off only after a
\* failed attempt that is not the last, and ends either with the transport it
\* opened or, on the failure of the last attempt, with a ConnectionError and no
\* transport opened.
C13_BoundedRetries ==
    /\ [](attempt \in 0..(MAX_RETRIES - 1))
    /\ [](cpc = "backoff" => attempt < MAX_RETRIES - 1)
    /\ [][ConnectEnds
            => \/ /\ cpc = "open"
                  /\ websocket' = "set" /\ transport' = "open"
                  /\ mainErr' = mainErr
               \/ /\ attempt = MAX_RETRIES - 1
                  /\ mainErr' = "ConnectionError"
                  /\ UNCHANGED <<websocket, transport>>]_vars
    /\ [][(cpc = "backoff" /\ cpc' = "auth") => attempt' = attempt + 1]_vars

\* The initial connect() has raised after its last attempt.
C13_Witness ==
    /\ mainErr = "ConnectionError"
    /\ attempt = MAX_RETRIES - 1
    /\ cpc = "idle"
    /\ lpc = "off"
    /\ websocket = "None"

\* C14: when the Auth Provider returns nothing, connect() raises at once: the
\* call ends with a ConnectionError, without backoff.
C14_AuthAbsentFailsFast ==
    [][(cpc = "auth" /\ tok' = "absent" /\ mainErr' # "Cancelled")
         => (cpc' = "idle" /\ mainErr' = "ConnectionError")]_vars

----------------------------------------------------------------------------
(* Message handling claims, checked under SpecMsg. *)

\* Frame f is one of those that cannot be dispatched, or its dispatch raises.
FailingFrame(f) ==
    \/ decode(f) # "ok"
    \/ f.event_type.kind = "int"
    \/ dispatch(event_handlers, f, 1).stop = "raised"

\* C15: whatever the frame, message handling raises nothing to listen() and
\* leaves the running flag and the transport as they are; after a frame that is
\* malformed, not an array, too short, has a number as topic, or whose handler
\* raises, listen() is back at reading the next frame, as it is when a
\* suspended handler has returned.
C15_NoFrameStopsListener ==
    /\ [][\A f \in Frames :
            MsgReceive(f) => /\ outcome' # "raised"
                             /\ lpc' \in {"recv", "handle"}
                             /\ UNCHANGED <<running, websocket, transport>>
                             /\ FailingFrame(f) => lpc' = "recv"]_vars
    /\ [][(outcome = "suspended" /\ outcome' # "suspended")
            => (outcome' # "raised" /\ lpc' = "recv")]_vars

\* A handler has raised on a frame with a matching topic, and listen() is
\* reading again.
C15_Witness ==
    /\ outcome = "error_logged"
    /\ invoked # <<>>
    /\ lpc = "recv"
    /\ running
    /\ transport = "open"

\* The frame decodes into the triple (kind, topic string, payload document).
IsTriple(f) == f.json = "array" /\ f.len = 3 /\ f.event_type.kind = "str"

\* C16: a frame that is not such a triple is discarded: no handler is invoked
\* for it and the cache and the phase state stay as they are.
C16_OnlyTriplesDispatched ==
    [][\A f \in Frames :
         (MsgReceive(f) /\ ~IsTriple(f))
            => /\ invoked' = <<>>
               /\ UNCHANGED <<gameflow_session, previous_phase, in_game,
                              is_recording, queue_status, game_dodge>>]_vars

\* The invocations a frame is due: one per registered key that is a substring
\* of its topic, in registration order, with the key and the payload.
DueInvocations(h, f) ==
    LET Matches(e) == IsSubstring(e.path, f.event_type.str)
        due == SelectSeq(h, Matches)
    IN  [i \in DOMAIN due |-> <<due[i].path, f.event_data>>]

\* C17: when the handling of a well-formed event is over, every handler whose
\* key is a substring of the topic has been invoked once, in registration
\* order, and no other handler, also when one of the handlers raised.
C17_EveryMatchingHandler ==
    (outcome \in {"done", "error_logged"} /\ IsTriple(frame[1]))
        => invoked = DueInvocations(event_handlers, frame[1])

\* C18: while a _handle_gameflow invocation is in progress, listen() is inside
\* the _handle_message that called it and reads no other frame.
C18_HandlersSequential ==
    /\ [](hpc # "idle" => (lpc = "handle" /\ outcome = "suspended"))
    /\ [][hpc # "idle" => frame' = frame]_vars
    /\ [][\A f \in Frames : MsgReceive(f) => hpc = "idle"]_vars

\* A _handle_gameflow invocation is suspended in the settle pause of the start
\* action, and listen() waits for it.
C18_Witness ==
    /\ hpc = "start_settle"
    /\ lpc = "handle"
    /\ outcome = "suspended"
    /\ cmds = <<"start">>

----------------------------------------------------------------------------
(* Dodge stop and stop idempotence, checked under Spec. *)

\* The step is a call of _handle_gameflow with a payload that satisfies Case.
CallOf(Case(_)) ==
    /\ hpc = "idle"
    /\ inp' # <<>>
    /\ Case(inp'[1])
    /\ HandleGameflow(inp'[1])

\* A Lobby payload of a queue that is recorded, with the gameDodge document
\* {phase: ChampSelect, state: PartyDodged}.
DodgeInLobby(p) ==
    /\ p.phase = "Lobby"
    /\ p.dodge.phase = "ChampSelect"
    /\ p.dodge.state = "PartyDodged"
    /\ get_queue_type(p) \notin ignored_queue_types

\* C19: with is_recording true, previous phase ChampSelect and a controller
\* that confirms every command, a Lobby payload with a confirmed ChampSelect
\* dodge makes the handler send exactly one stop command and no start command,
\* record the dodge as confirmed in phase ChampSelect, and, once the flush
\* pause is over, leave is_recording false.
C19_DodgeStop ==
    /\ [][(/\ is_recording
           /\ previous_phase = "ChampSelect"
           /\ obs
           /\ faithful /\ faithful'
           /\ CallOf(DodgeInLobby))
            => /\ cmds' = <<"stop">>
               /\ hpc' = "stop_flush"
               /\ game_dodge'[1] = "True"
               /\ game_dodge'[2] = "ChampSelect"]_vars
    /\ [][\A answer \in BOOLEAN :
            (/\ StopFlush(answer)
             /\ DodgeInLobby(Payload)
             /\ previous_phase = "ChampSelect"
             /\ obs
             /\ faithful /\ faithful')
            => /\ cmds' = <<"stop">>
               /\ is_recording' = FALSE
               /\ action_result' = "True"
               /\ game_dodge'[1] = "True"
               /\ game_dodge'[2] = "ChampSelect"
               /\ previous_phase' = "Lobby"]_vars

\* The dodge payload arrived after ChampSelect while recording, and the stop
\* command has been sent.
C19_Witness ==
    /\ hpc = "stop_flush"
    /\ DodgeInLobby(Payload)
    /\ previous_phase = "ChampSelect"
    /\ is_recording
    /\ faithful
    /\ game_dodge = <<"True", "ChampSelect", <<7>>>>
    /\ cmds = <<"stop">>

AnyPayload(p) == TRUE

\* _handle_gameflow(p) reaches _handle_recording_stop in the current state.
StopActionRuns(p) ==
    /\ is_data_different(p, gameflow_session)
    /\ ~gate_fires(get_queue_type(p))
    /\ current_phase(p) # previous_phase
    /\ obs
    /\ recording_case(current_phase(p), prev_phase_of(previous_phase),
                      get_queue_type(p), check_if_dodge(p)[1], is_recording) = "stop"

\* C20: a stop action that finds the controller not recording, and so returns
\* without pausing, has sent no stop command and no rename, has set
\* is_recording to false and has returned True; and a call made while
\* is_recording is false sends no command at all.
C20_StopIdempotent ==
    /\ [][(hpc' = "idle" /\ CallOf(StopActionRuns))
            => /\ cmds' = <<>>
               /\ lastCmd' = lastCmd
               /\ is_recording' = FALSE
               /\ action_result' = "True"]_vars
    /\ [][(~is_recording /\ CallOf(AnyPayload))
            => (cmds' = <<>> /\ lastCmd' = lastCmd /\ hpc' # "stop_flush")]_vars

\* The stop action has just returned True without sending anything.
C20_Witness ==
    /\ hpc = "idle"
    /\ ret = "end"
    /\ action_result = "True"
    /\ cmds = <<>>
    /\ lastCmd = "start"
    /\ ~is_recording

----------------------------------------------------------------------------
(* The recording actions of the phase machine, checked under Spec. *)

\* C21: when the flush pause of a stop for the EndOfGame payload of queue
\* RANKED_SOLO_5x5 and game 123, received after ChampSelect while recording,
\* ends with the controller reporting inactive, a
\* rename of the last recording to league_rankedsolo5x5_game_123 is requested
\* after the stop command.
C21_RenameRequested ==
    [][\A answer \in BOOLEAN :
         (/\ hpc = "stop_flush"
          /\ previous_phase = "ChampSelect"
          /\ Payload.phase = "EndOfGame"
          /\ Payload.queue = "RANKED_SOLO_5x5"
          /\ obs
          /\ ~obs_is_recording(answer)
          /\ StopFlush(answer))
         => /\ Len(cmds') = 2
            /\ cmds'[1] = "stop"
            /\ cmds'[2] = <<"rename", <<"league", "rankedsolo5x5", "game", "123">>>>]_vars

\* The step ends a start or stop action by an exception: the readiness wait
\* times out, or the controller call is made on a controller reference that
\* the initialization task has cleared meanwhile.
ActionFailsByException ==
    /\ hpc' = "idle"
    /\ \/ hpc = "start_wait" /\ (~obs_ready \/ ~obs)
       \/ hpc \in {"start_settle", "stop_flush"} /\ ~obs

LastCalls(n) == IF Len(cmds) < n THEN <<>> ELSE SubSeq(cmds, Len(cmds) - n + 1, Len(cmds))

\* C23: cleanup() returns, and with a controller it calls stop first exactly
\* when is_recording is true, then disconnect, and releases the reference;
\* without a controller it calls nothing. Whatever the stop call or the
\* disconnect call raised, the disconnect was called and the reference is
\* released.
C23_CleanupOrder ==
    /\ [][(hpc # "down" /\ hpc' = "down")
            => /\ obs' = FALSE
               /\ cmds' = cmds \o (IF ~obs THEN <<>>
                                   ELSE IF is_recording THEN <<"stop", "disconnect">>
                                   ELSE <<"disconnect">>)
               /\ UNCHANGED <<is_recording, previous_phase, gameflow_session>>]_vars
    /\ [](cleanup_errors # <<>>
            => (hpc = "down" /\ ~obs /\ LastCalls(1) = <<"disconnect">>))
    /\ [](cleanup_errors \in {<<"stop">>, <<"stop", "disconnect">>}
            => LastCalls(2) = <<"stop", "disconnect">>)

\* cleanup() ran while recording, its stop call and its disconnect call both
\* raised, and both were made and the reference is released.
C23_Witness ==
    /\ hpc = "down"
    /\ is_recording
    /\ cleanup_errors = <<"stop", "disconnect">>
    /\ LastCalls(2) = <<"stop", "disconnect">>
    /\ ~obs

\* C24: is_recording becomes true only in the step of a start action that
\* re-queries the controller and is told active, and becomes false only in a
\* stop action whose status query (the first one, or the one after the flush
\* pause) is told inactive; a call that is filtered or gated, and cleanup(),
\* leave it as it is.
C24_MirrorsController ==
    /\ [][(is_recording' # is_recording)
            => \/ /\ is_recording'
                  /\ hpc = "start_settle" /\ obs
                  /\ \E answer \in BOOLEAN :
                        obs_is_recording(answer) /\ StartSettle(answer)
               \/ /\ ~is_recording'
                  /\ hpc = "stop_flush" /\ obs
                  /\ \E answer \in BOOLEAN :
                        ~obs_is_recording(answer) /\ StopFlush(answer)
               \/ /\ ~is_recording'
                  /\ hpc' = "idle" /\ action_result' = "True"
                  /\ CallOf(StopActionRuns)]_vars
    /\ [][(hpc' = "down" \/ (hpc = "idle" /\ ret' \in {"filter", "gate"}))
            => UNCHANGED is_recording]_vars

\* A start command was sent, the re-query was told inactive, and is_recording
\* is still false.
C24_Witness ==
    /\ hpc = "idle"
    /\ ret = "end"
    /\ cmds = <<"start">>
    /\ action_result = "False"
    /\ obs /\ obsConnected
    /\ ~is_recording

\* The start and stop commands among the controller calls of the latest call.
RecordingCommands == {i \in DOMAIN cmds : cmds[i] \in {"start", "stop"}}

\* Payload p passes the change filter and the gate, changes the phase, and a
\* controller is present: the recording cases are tried.
Processed(p) ==
    /\ is_data_different(p, gameflow_session)
    /\ ~gate_fires(get_queue_type(p))
    /\ current_phase(p) # previous_phase
    /\ obs

\* The conditions of the five cases, in the order of the specification:
\* start on entry, cancelled to None, end of game, terminated in error, dodge.
CaseMatches(n, p) ==
    LET cur == current_phase(p) IN
    CASE n = 1 -> cur \in {"ReadyCheck", "ChampSelect"} /\ ~is_recording
      [] n = 2 -> /\ cur = "None"
                  /\ prev_phase_of(previous_phase) \in {"ReadyCheck", "ChampSelect"}
                  /\ is_recording
      [] n = 3 -> cur \in {"EndOfGame", "GameComplete"} /\ is_recording
      [] n = 4 -> cur = "TerminatedInError" /\ is_recording
      [] n = 5 -> /\ cur \in {"Lobby", "Matchmaking"}
                  /\ check_if_dodge(p)[1] = "True"
                  /\ is_recording

FirstCase(p) ==
    IF \E n \in 1..5 : CaseMatches(n, p)
    THEN CHOOSE n \in 1..5 : /\ CaseMatches(n, p)
                             /\ \A m \in 1..(n - 1) : ~CaseMatches(m, p)
    ELSE 0

ActionOfCase(n, p) ==
    CASE n = 1 -> "start"
      [] n \in {2, 3, 5} -> "stop"
      [] n = 4 -> IF get_queue_type(p) = "PRACTICE_TOOL" THEN "none" ELSE "stop"
      [] OTHER -> "none"

\* The action the step of a call has entered: the start action waits for
\* readiness, the stop action has paused after its command or has returned
\* True at once.
ActionEntered ==
    IF hpc' = "start_wait" THEN "start"
    ELSE IF hpc' = "stop_flush" \/ action_result' = "True" THEN "stop"
    ELSE "none"

\* C25: one call of _handle_gameflow sends at most one start or stop command:
\* none before the start action has sent its command, the start command alone
\* after it, the stop command alone in a stop action; and the action a call
\* enters is that of the first case that matches, in the order start on entry,
\* cancelled to None, end of game, terminated in error, dodge.
C25_OneActionPerCall ==
    /\ [](hpc # "down" => Cardinality(RecordingCommands) <= 1)
    /\ [](hpc = "start_wait" => cmds = <<>>)
    /\ [](hpc = "start_settle" => cmds \in {<<>>, <<"start">>})
    /\ [](hpc = "stop_flush" => cmds = <<"stop">>)
    /\ [][CallOf(Processed)
            => ActionEntered = ActionOfCase(FirstCase(inp'[1]), inp'[1])]_vars

\* A recording game is cancelled with a confirmed dodge document in the
\* payload: the stop command was sent once, by the cancelled-game case.
C25_Witness ==
    /\ hpc = "idle"
    /\ ret = "end"
    /\ Payload.phase = "None"
    /\ Payload.dodge.state = "PartyDodged"
    /\ cmds = <<"stop">>
    /\ action_result = "True"
    /\ ~is_recording

\* Payload p passes the change filter and the gate and changes the phase.
PhaseChange(p) ==
    /\ is_data_different(p, gameflow_session)
    /\ ~gate_fires(get_queue_type(p))
    /\ current_phase(p) # previous_phase

\* C26: a call that processes a phase change sets in_game to true for
\* ReadyCheck and ChampSelect, to false for EndOfGame, GameComplete, None and
\* Lobby, to false for TerminatedInError of the practice tool, and leaves it as
\* it was for every other phase, with or without a controller; the rest of the
\* call does not touch it.
C26_InGameTable ==
    /\ [][CallOf(PhaseChange)
            => LET cur == current_phase(inp'[1])
                   queue_type == get_queue_type(inp'[1])
               IN  in_game' =
                     CASE cur \in {"ReadyCheck", "ChampSelect"} -> TRUE
                       [] cur \in {"EndOfGame", "GameComplete", "None", "Lobby"} -> FALSE
                       [] cur = "TerminatedInError" /\ queue_type = "PRACTICE_TOOL" -> FALSE
                       [] OTHER -> in_game]_vars
    /\ [][hpc # "idle" => UNCHANGED in_game]_vars

\* Without a controller, a ranked game in champion select terminated in error:
\* in_game is still true.
C26_Witness ==
    /\ hpc = "idle"
    /\ ret = "end"
    /\ initpc = "none"
    /\ ~obs
    /\ Payload.phase = "TerminatedInError"
    /\ Payload.queue = "RANKED_SOLO_5x5"
    /\ previous_phase = "TerminatedInError"
    /\ in_game

\* Payload p differs from the cached document and has the phase stored as
\* previous phase.
SamePhaseNewDocument(p) ==
    /\ is_data_different(p, gameflow_session)
    /\ current_phase(p) = previous_phase

\* C27: a call with a payload that differs from the cached document but has the
\* previous phase returns at once without any controller command and leaves
\* in_game and is_recording as they are, after it has replaced the cached
\* document by the payload and stored the dodge classification of the payload.
C27_SamePhaseNoAction ==
    [][CallOf(SamePhaseNewDocument)
         => /\ hpc' = "idle"
            /\ cmds' = <<>>
            /\ action_result' = "none"
            /\ UNCHANGED <<in_game, is_recording, lastCmd, previous_phase>>
            /\ gameflow_session' = inp'
            /\ game_dodge' = check_if_dodge(inp'[1])]_vars

\* A second ReadyCheck document, of a recorded queue, arrived while a ready
\* controller was not recording: no start action ran.
C27_Witness ==
    /\ hpc = "idle"
    /\ ret = "end"
    /\ Payload.phase = "ReadyCheck"
    /\ Payload.dodge.state = "PartyDodged"
    /\ gameflow_session = inp
    /\ game_dodge[1] = "True"
    /\ obs /\ obs_ready /\ obsConnected
    /\ ~is_recording
    /\ cmds = <<>>
    /\ action_result = "none"

StartCount(c) == Cardinality({i \in DOMAIN c : c[i] = "start"})

\* The step sends a start command to the device.
StartSent == StartCount(cmds') > StartCount(cmds)

ChampSelectWhileRecording(p) ==
    /\ current_phase(p) = "ChampSelect"
    /\ previous_phase = "ReadyCheck"
    /\ is_data_different(p, gameflow_session)
    /\ is_recording

\* C28: a start command is sent only by the start action of a call whose
\* payload changes the phase to ReadyCheck or ChampSelect, while is_recording is
\* false; the call for ReadyCheck -> ChampSelect while is_recording is true
\* returns at once without a command.
C28_StartOnlyOnEntry ==
    /\ [][StartSent
            => /\ hpc = "start_wait" /\ hpc' = "start_settle"
               /\ current_phase(Payload) \in {"ReadyCheck", "ChampSelect"}
               /\ current_phase(Payload) # previous_phase
               /\ ~is_recording]_vars
    /\ [][CallOf(ChampSelectWhileRecording)
            => (hpc' = "idle" /\ cmds' = <<>> /\ lastCmd' = lastCmd)]_vars

\* The start command has been sent for the change from Lobby to ReadyCheck.
C28_Witness ==
    /\ hpc = "start_settle"
    /\ cmds = <<"start">>
    /\ lastCmd = "start"
    /\ Payload.phase = "ReadyCheck"
    /\ previous_phase = "Lobby"
    /\ ~is_recording

TerminatedWhileRecording(p) ==
    /\ Processed(p)
    /\ current_phase(p) = "TerminatedInError"
    /\ is_recording

\* C29 as stated: on a processed change to TerminatedInError while
\* is_recording is true the stop command is sent exactly when the queue is not
\* the practice tool, and for the practice tool is_recording stays true.
C29_StopIffNotPracticeAsStated ==
    [][CallOf(TerminatedWhileRecording)
         => /\ (cmds' = <<"stop">>) <=> (get_queue_type(inp'[1]) # "PRACTICE_TOOL")
            /\ get_queue_type(inp'[1]) = "PRACTICE_TOOL"
                 => (cmds' = <<>> /\ is_recording')]_vars

\* C29: on a processed change to TerminatedInError while is_recording is true
\* the stop action runs exactly when the queue is not the practice tool: it
\* sends the stop command, or, told by the controller that it is not recording,
\* sets is_recording to false without a command. For the practice tool the call
\* returns at once with no action, no command and is_recording still true.
C29_StopIffNotPractice ==
    [][CallOf(TerminatedWhileRecording)
         => IF get_queue_type(inp'[1]) = "PRACTICE_TOOL"
            THEN /\ hpc' = "idle"
                 /\ cmds' = <<>>
                 /\ action_result' = "none"
                 /\ lastCmd' = lastCmd
                 /\ is_recording'
            ELSE \/ hpc' = "stop_flush" /\ cmds' = <<"stop">> /\ is_recording'
                 \/ /\ hpc' = "idle"
                    /\ action_result' = "True"
                    /\ cmds' = <<>>
                    /\ ~is_recording']_vars

\* In debug mode a recorded practice-tool game terminated in error, with a
\* confirmed dodge document in the payload: nothing was sent.
C29_Witness ==
    /\ hpc = "idle"
    /\ ret = "end"
    /\ is_debug
    /\ obs
    /\ Payload.phase = "TerminatedInError"
    /\ Payload.queue = "PRACTICE_TOOL"
    /\ Payload.dodge.state = "PartyDodged"
    /\ previous_phase = "TerminatedInError"
    /\ is_recording
    /\ cmds = <<>>
    /\ action_result = "none"

LobbyWhileRecording(p) ==
    /\ Processed(p)
    /\ current_phase(p) \in {"Lobby", "Matchmaking"}
    /\ is_recording

\* The gameDodge document of p is a party dodge in ReadyCheck or ChampSelect.
ConfirmedDodge(p) ==
    /\ p.dodge.phase \in {"ReadyCheck", "ChampSelect"}
    /\ p.dodge.state = "PartyDodged"

\* C30: on a processed change to Lobby or Matchmaking while is_recording is
\* true, the stop action runs, and the stop command can be sent, only for a
\* confirmed dodge; with no gameDodge document or one in another state the call
\* returns at once with no command and is_recording still true.
C30_StopOnlyOnConfirmedDodge ==
    [][CallOf(LobbyWhileRecording)
         => IF ConfirmedDodge(inp'[1])
            THEN ActionEntered = "stop"
            ELSE /\ hpc' = "idle"
                 /\ cmds' = <<>>
                 /\ action_result' = "none"
                 /\ lastCmd' = lastCmd
                 /\ is_recording']_vars

\* A recorded ranked game came back to Matchmaking with a gameDodge document
\* that is not a party dodge: nothing was sent.
C30_Witness ==
    /\ hpc = "idle"
    /\ ret = "end"
    /\ obs
    /\ Payload.phase = "Matchmaking"
    /\ Payload.queue = "RANKED_SOLO_5x5"
    /\ Payload.dodge.state = "Invalid"
    /\ game_dodge[1] = "Unknown"
    /\ previous_phase = "Matchmaking"
    /\ is_recording
    /\ cmds = <<>>
    /\ action_result = "none"

-----------------------------------------------------------------------------
(* The dodge classification alone, applied to every shape of gameDodge
   sub-document. *)

\* gameDodge sub-documents with a present or missing phase, a present or
\* missing state and an affected-id list; the one with nothing in it is the
\* empty document NoDodge.
AllDodgeDocs == [phase : {Absent, "ReadyCheck", "ChampSelect", "Lobby"},
                 state : {Absent, "PartyDodged", "Invalid"},
                 dodgeIds : {<<>>, <<7>>, <<7, 8>>}]

\* A session payload carrying the gameDodge sub-document d.
DodgePayload(d) == [phase |-> "Lobby", queue |-> "RANKED_SOLO_5x5",
                    dodge |-> d, gameId |-> "123"]

\* logic.py 192: self.game_dodge = self._check_if_dodge(json_data)
CheckDodge(d) ==
    /\ hpc = "idle"
    /\ inp' = <<DodgePayload(d)>>
    /\ game_dodge' = check_if_dodge(DodgePayload(d))
    /\ UNCHANGED <<gameflow_session, previous_phase, in_game, is_recording,
                   queue_status, obs, obs_ready, is_debug, initpc, hpc,
                   obsConnected, ret, action_result, cmds, lastCmd, faithful, scen>>
    /\ UNCHANGED <<cvars, mvars, tvars>>

DodgeNext == \E d \in AllDodgeDocs : CheckDodge(d)

SpecDodge == Init /\ [][DodgeNext]_vars

\* The classification the dodge rules give to the sub-document d.
DodgeClass(d) ==
    IF d = NoDodge THEN "False"
    ELSE IF d.phase \in {"ReadyCheck", "ChampSelect"} /\ d.state = "PartyDodged"
         THEN "True"
         ELSE "Unknown"

\* C31: the dodge classification is a total function of the gameDodge
\* sub-document: the empty document gives not-dodged with an empty phase and an
\* empty id list; a phase of ReadyCheck or ChampSelect together with the state
\* PartyDodged gives confirmed-dodge; every other non-empty document gives
\* ambiguous-dodge; both non-empty classifications carry the document's own
\* phase (empty when it has none) and its affected-id list.
C31_DodgeClassification ==
    inp # <<>> =>
        LET d == Payload.dodge IN
        /\ game_dodge[1] = DodgeClass(d)
        /\ game_dodge[1] \in {"False", "True", "Unknown"}
        /\ d = NoDodge => game_dodge = <<"False", "", <<>>>>
        /\ d # NoDodge =>
              /\ game_dodge[2] = (IF d.phase = Absent THEN "" ELSE d.phase)
              /\ game_dodge[3] = d.dodgeIds

\* An ambiguous dodge: a PartyDodged document of a phase other than ReadyCheck
\* and ChampSelect has been classified.
C31_Witness ==
    /\ inp # <<>>
    /\ Payload.dodge = [phase |-> "Lobby", state |-> "PartyDodged", dodgeIds |-> <<7, 8>>]
    /\ game_dodge = <<"Unknown", "Lobby", <<7, 8>>>>

-----------------------------------------------------------------------------
(* The start and stop actions and the readiness signal, checked under Spec. *)

\* A step that ends the readiness wait of the start action while the signal is
\* not set.
WaitEndsUnready ==
    hpc = "start_wait" /\ ~obs_ready /\ hpc' \notin {"start_wait", "down"}

\* C32: the start action calls the controller's start, and a start command goes
\* to the device, only when the readiness signal is set; when the bounded wait
\* ends without the signal the start action returns False, no start command is
\* issued, is_recording is left false, and handle_gameflow completes with the
\* phase persisted.
C32_StartAfterReadiness ==
    /\ [][((hpc = "start_wait" /\ hpc' = "start_settle") \/ StartSent)
            => obs_ready]_vars
    /\ [][WaitEndsUnready
            => /\ action_result' = "False"
               /\ cmds' = cmds
               /\ ~StartSent
               /\ ~is_recording'
               /\ hpc' = "idle"
               /\ ret' = "end"
               /\ previous_phase' = current_phase(Payload)]_vars

\* The readiness wait of the start action for ReadyCheck has timed out on a
\* controller still initializing: the call is over, nothing was sent.
C32_Witness ==
    /\ hpc = "idle"
    /\ ret = "end"
    /\ action_result = "False"
    /\ obs
    /\ ~obs_ready
    /\ initpc \in {"connect", "profile"}
    /\ cmds = <<>>
    /\ ~is_recording
    /\ previous_phase = "ReadyCheck"
    /\ current_phase(Payload) = "ReadyCheck"

\* A step that ends the settle wait of the stop action.
StopFlushEnds == hpc = "stop_flush" /\ hpc' = "idle" /\ obs

\* The step requests a rename from the controller: the one call the stop action
\* can make once the stop has settled.
RenameRequested == hpc = "stop_flush" /\ Len(cmds') > Len(cmds)

\* C33: when the stop action has issued the device stop and the controller's
\* re-query still reports active, the action returns False, is_recording stays
\* true and nothing more is asked of the controller: no rename is requested.
C33_StopNotConfirmed ==
    [][\A answer \in BOOLEAN :
          (StopFlushEnds /\ obs_is_recording(answer) /\ stop_flush(answer))
             => /\ action_result' = "False"
                /\ is_recording' = is_recording
                /\ is_recording'
                /\ cmds' = cmds
                /\ ~RenameRequested]_vars

\* The stop of the EndOfGame event was sent and the re-query still reported
\* active: the call is over with a failed action, the recording flag still set.
C33_Witness ==
    /\ hpc = "idle"
    /\ ret = "end"
    /\ action_result = "False"
    /\ is_recording
    /\ obs
    /\ obsConnected
    /\ cmds = <<"stop">>
    /\ previous_phase = "EndOfGame"

\* The settle wait of the stop action ends with the controller reporting
\* inactive: the stop is confirmed.
StopConfirmedStep ==
    \E answer \in BOOLEAN :
        StopFlushEnds /\ ~obs_is_recording(answer) /\ stop_flush(answer)

C35_NoRecordingAfterGameEnds ==
    (/\ hpc = "idle"
     /\ ret = "end"
     /\ faithful
     /\ obs
     /\ obsConnected
     /\ inp # <<>>
     /\ previous_phase = current_phase(Payload)
     /\ previous_phase \in {"None", "EndOfGame", "GameComplete"})
        => ~is_recording

-----------------------------------------------------------------------------
(* The listener on a closed transport, checked under SpecConn. *)

\* C36: whenever listen() finds its transport closed while the running flag is
\* true, however the closure surfaces, its next step is inside connect(): it
\* never goes back to the head of its loop on the closed transport.
C36_ClosedTransportReconnects ==
    [][(mpc = "listen" /\ ListenLeavesRecv /\ Closed(transport) /\ running)
         => (lpc' # "loop" /\ cpc' # "idle")]_vars

-----------------------------------------------------------------------------
(* The wildcard subscription, checked under SpecMsg. *)

\* C37: when the handling of a well-formed event is over, a handler registered
\* through subscribe under the wildcard topic "*" has been invoked for it with
\* its payload, whatever the topic of the event.
C37_WildcardHandlerInvoked ==
    (/\ outcome \in {"done", "error_logged"}
     /\ decode(frame[1]) = "ok"
     /\ frame[1].event_type.kind = "str"
     /\ Wildcard \in Paths(event_handlers))
        => \E i \in DOMAIN invoked : invoked[i] = <<Wildcard, frame[1].event_data>>

-----------------------------------------------------------------------------
(* The background initialization of the controller, checked under Spec. *)

\* The background initialization is over and succeeded: connect returned true
\* and so did set-profile.
InitSucceeded == initpc = "done" /\ obs /\ obsConnected

\* The step sends a start or a stop command to the device: from the start
\* action, from the stop action, or from cleanup().
DeviceCommandStep ==
    \/ StartSent
    \/ StopIssuedStep
    \/ (hpc # "down" /\ hpc' = "down" /\ Len(cmds') > Len(cmds) /\ lastCmd' = "stop"
        /\ is_recording)

SpecInitFair ==
    /\ Spec
    /\ WF_vars(\E ok \in BOOLEAN : InitConnect(ok))
    /\ WF_vars(\E ok \in BOOLEAN : InitProfile(ok))

\* C39: once the background initialization of a configured controller has been
\* started, the readiness signal is eventually set, whether the connect
\* succeeds or returns false and whether set-profile succeeds or fails; once
\* set it is never cleared.
C39_ReadinessEventuallySet ==
    /\ (initpc \in {"connect", "profile"}) ~> obs_ready
    /\ [][obs_ready => obs_ready']_vars

\* The connect returned false while no shutdown was under way: the finally has
\* set the readiness signal on a controller that is not connected.
C39_Witness ==
    /\ initpc = "done"
    /\ obs_ready
    /\ obs
    /\ ~obsConnected
    /\ hpc # "down"

\* A step that ends the readiness wait of the start action after the
\* initialization task has set the signal and cleared the controller reference.
WaitEndsOnClearedController ==
    hpc = "start_wait" /\ obs_ready /\ ~obs /\ hpc' \notin {"start_wait", "down"}

\* C40: when the initialization task clears the controller reference while a
\* start action is suspended waiting for readiness, the start action returns
\* False without raising, no command is sent, is_recording stays false, and
\* handle_gameflow completes normally with previous_phase persisted.
C40_ClearedWhileWaiting ==
    /\ [][(hpc = "start_wait" /\ obs /\ ~obs' /\ hpc' # "down")
            => (hpc' = "start_wait" /\ initpc' = "done" /\ obs_ready'
                /\ ~is_recording')]_vars
    /\ [][WaitEndsOnClearedController
            => /\ action_result' = "False"
               /\ ret' = "end"
               /\ hpc' = "idle"
               /\ ~is_recording'
               /\ cmds' = cmds
               /\ previous_phase' = current_phase(Payload)]_vars

\* The start action of the ChampSelect event was waiting when set-profile
\* failed; it has returned False and the call has persisted the phase.
C40_Witness ==
    /\ hpc = "idle"
    /\ ret = "end"
    /\ action_result = "False"
    /\ ~obs
    /\ obs_ready
    /\ obsConnected
    /\ initpc = "done"
    /\ ~is_recording
    /\ cmds = <<>>
    /\ current_phase(Payload) = "ChampSelect"
    /\ previous_phase = "ChampSelect"

====
